---- MODULE Spec2Model ----
(***************************************************************************)
(* PublishService (src/src/domain/service/PublishService.ts): the publish  *)
(* orchestrator of joplin-plugin-pages-publisher.                          *)
(*                                                                         *)
(* JavaScript runs the service on one thread: a step of this model is the  *)
(* code between two suspension points (an await, a timer, an event).       *)
(* The collaborators (generator, git, github, the two repositories) are    *)
(* the environment: what they return, and the events they emit, are        *)
(* inputs drawn from small sets.                                           *)
(*                                                                         *)
(* JavaScript values: strings are TLA+ strings, null/undefined is Nil, an  *)
(* object is a function whose DOMAIN is the set of its own keys.           *)
(***************************************************************************)
EXTENDS Naturals, Sequences, FiniteSets, Bags, TLC

VARIABLES
    initPc,              \* position of init(): "start", "subscribed", "token", "done"
    outputDir,           \* this.outputDir.value
    initToken,           \* init(): the token it has read, while it awaits the settings
    githubInfo,          \* this.githubInfo.value: [isNull, obj]
    savedInfo,           \* last object handed to pluginDataRepository.saveGithubInfo
    githubClient,        \* last snapshot handed to github.init
    repositoryName,      \* this.repositoryName.value
    localRepoStatus,     \* this.localRepoStatus.value
    files,               \* this.files
    isGenerating,        \* this.isGenerating.value
    generatingProgress,  \* this.generatingProgress
    generateCalls,       \* generateSite() calls suspended at generator.generateSite()
    lastGenerated,       \* history: list returned by the last successful generator call
    isPublishing,        \* this.isPublishing.value
    publishingProgress,  \* this.publishingProgress
    attempts             \* bag of publish() calls between line 202 and the finally block

vars == <<initPc, outputDir, initToken, githubInfo, savedInfo, githubClient, repositoryName,
          localRepoStatus, files, isGenerating, generatingProgress, generateCalls,
          lastGenerated, isPublishing, publishingProgress, attempts>>

credVars == <<githubInfo, savedInfo, githubClient, repositoryName>>
genVars == <<files, isGenerating, generatingProgress, generateCalls, lastGenerated>>
pubVars == <<isPublishing, publishingProgress, attempts>>
initVars == <<initPc, outputDir, initToken>>

----------------------------------------------------------------------------
(* Bounds *)

\* publish() calls that may be suspended at the same time
MaxInFlight == 2

\* length of the longest file list the generator returns
MaxFiles == 1

\* number of chunks of the longest message an error carries
MaxMessageLen == 2

----------------------------------------------------------------------------
(* JavaScript values and lodash helpers *)

Nil == "<nil>"

\* lodash isEmpty on null, undefined and strings
isEmpty(value) == value = Nil \/ value = ""

\* src/unnamed/part_000: isUnset
isUnset(value) == value = Nil \/ value = ""

EmptyObject == [k \in {} |-> Nil]

\* Object.assign(target, source)
ObjectAssign(target, source) ==
    [k \in (DOMAIN target) \cup (DOMAIN source) |->
        IF k \in DOMAIN source THEN source[k] ELSE target[k]]

\* lodash omit(object, keys)
omit(object, keys) == [k \in (DOMAIN object) \ keys |-> object[k]]

\* lodash pick(object, keys); pick(null, keys) is {}
pick(info, keys) ==
    IF info.isNull THEN EmptyObject
    ELSE [k \in (DOMAIN info.obj) \cap keys |-> info.obj[k]]

----------------------------------------------------------------------------
(* Values of model/Publishing and model/GitClient, which the service       *)
(* imports; they are taken from the specification's data model (section 3) *)

\* PublishResults
Terminated == "Terminated"
Fail == "Fail"
Success == "Success"
PublishResults == {Terminated, Fail, Success}

\* initialPublishProgress: the initial empty value of PublishingProgress
initialPublishProgress == [phase |-> "", message |-> <<>>, result |-> Nil]

\* initialGeneratingProgress: the initial empty value of GeneratingProgress
initialGeneratingProgress == [result |-> Nil, message |-> <<>>]

\* DEFAULT_GITHUB: the built-in default template of CredentialInfo
DEFAULT_GITHUB == [userName |-> "", email |-> "", token |-> ""]

\* github.getRepositoryName(): the configured name, else the default one
\* (which the remote client derives from the user name)
getRepositoryName(client) ==
    IF "repositoryName" \in DOMAIN client /\ ~isEmpty(client["repositoryName"])
    THEN client["repositoryName"]
    ELSE client["userName"]

\* enum LocalRepoStatus
Ready == "Ready"
StatusFail == "Fail"
Initializing == "Initializing"
MissingRepository == "MissingRepository"
LocalRepoStatus == {Ready, StatusFail, Initializing, MissingRepository}

\* PUBLISH_RESULT_MESSAGE
PUBLISH_RESULT_MESSAGE(type) ==
    CASE type = Terminated -> "Publishing terminated."
      [] type = Fail ->
           "This is an unexpected error, you can retry, and report it as a Github issue"
      [] type = Success -> ""

----------------------------------------------------------------------------
(* Credentials *)

NullInfo == [isNull |-> TRUE, obj |-> EmptyObject]
NotSaved == [saved |-> FALSE, obj |-> EmptyObject]
NoClient == [inited |-> FALSE, info |-> EmptyObject]

requiredKeys == {"userName", "email", "token"}

\* mutant: every in place of some, a record is invalid only if all three are empty
GithubInfoValid_every(info) ==
    LET keyInfos == pick(info, requiredKeys)
    IN  /\ Cardinality(DOMAIN keyInfos) = Cardinality(requiredKeys)
        /\ ~\A k \in DOMAIN keyInfos : isEmpty(keyInfos[k])

\* isGithubInfoValid, as a function of the value of this.githubInfo
GithubInfoValid(info) ==
    LET keyInfos == pick(info, requiredKeys)
    IN  /\ Cardinality(DOMAIN keyInfos) = Cardinality(requiredKeys)
        /\ ~\E k \in DOMAIN keyInfos : isEmpty(keyInfos[k])

\* this.isGithubInfoValid.value: a computed, re-evaluated on the current value
isGithubInfoValid == GithubInfoValid(githubInfo)

\* mutant: the client is initialized whenever a credential state exists
initGithubClient_unguarded(info) ==
    IF info.isNull
    THEN UNCHANGED <<githubClient, repositoryName>>
    ELSE /\ githubClient' = [inited |-> TRUE, info |-> info.obj]
         /\ repositoryName' = getRepositoryName(info.obj)

\* initGithubClient(), run on the value info of this.githubInfo
initGithubClient(info) ==
    IF ~GithubInfoValid(info) \/ info.isNull
    THEN UNCHANGED <<githubClient, repositoryName>>
    ELSE /\ githubClient' = [inited |-> TRUE, info |-> info.obj]
         /\ repositoryName' = getRepositoryName(info.obj)

\* (await getGithubToken()) || ''
OrEmpty(value) == IF value = Nil \/ value = "" THEN "" ELSE value

\* the object init() assigns to this.githubInfo.value
LoadedGithubInfo(token, persisted) ==
    ObjectAssign(ObjectAssign(DEFAULT_GITHUB, [t \in {"token"} |-> OrEmpty(token)]),
                 persisted)

\* mutant: the argument is merged with its token
SaveMerged_withToken(obj, arg) == ObjectAssign(obj, arg)

\* the object saveGithubInfo merges into this.githubInfo.value
SaveMerged(obj, arg) == ObjectAssign(obj, omit(arg, {"token"}))

\* the object saveGithubInfo hands to pluginDataRepository.saveGithubInfo
SavePersisted(obj) == omit(obj, {"token"})

\* init() up to its second await: the output directory is resolved, git.init
\* is started and the event handlers are registered
InitSubscribe ==
    /\ initPc = "start"
    /\ initPc' = "subscribed"
    /\ outputDir' = "dir"
    /\ UNCHANGED initToken
    /\ UNCHANGED <<credVars, localRepoStatus, genVars, pubVars>>

\* init() from the token read to its third await: (token || '') is kept and
\* pluginDataRepository.getGithubInfo() is called
InitToken(token) ==
    /\ initPc = "subscribed"
    /\ initPc' = "token"
    /\ initToken' = OrEmpty(token)
    /\ UNCHANGED <<outputDir, credVars, localRepoStatus, genVars, pubVars>>

\* init() from the persisted settings read to its end
InitLoad(persisted) ==
    /\ initPc = "token"
    /\ initPc' = "done"
    /\ initToken' = ""
    /\ githubInfo' = [isNull |-> FALSE, obj |-> LoadedGithubInfo(initToken, persisted)]
    /\ initGithubClient(githubInfo')
    /\ UNCHANGED <<outputDir, savedInfo, localRepoStatus, genVars, pubVars>>

saveGithubInfo(arg) ==
    /\ IF ~githubInfo.isNull
       THEN /\ githubInfo' = [isNull |-> FALSE, obj |-> SaveMerged(githubInfo.obj, arg)]
            /\ savedInfo' = [saved |-> TRUE, obj |-> SavePersisted(githubInfo'.obj)]
            /\ initGithubClient(githubInfo')
       ELSE UNCHANGED credVars
    /\ UNCHANGED <<initVars, localRepoStatus, genVars, pubVars>>

----------------------------------------------------------------------------
(* Strings that the service concatenates are sequences of chunks: "" is    *)
(* <<>>, a chunk is a non-empty text without surrounding whitespace, and   *)
(* " " is a chunk of its own.                                              *)

RECURSIVE trimStart(_)
trimStart(str) ==
    IF str # <<>> /\ Head(str) = " " THEN trimStart(Tail(str)) ELSE str

RECURSIVE trimEnd(_)
trimEnd(str) ==
    IF str # <<>> /\ str[Len(str)] = " "
    THEN trimEnd(SubSeq(str, 1, Len(str) - 1))
    ELSE str

\* String.prototype.trim
trim(str) == trimEnd(trimStart(str))

\* `${n}`: a number to its decimal text
NumberText(n) == ToString(n)

----------------------------------------------------------------------------
(* Generate workflow *)

\* refreshGeneratingProgress(progress)
refreshGeneratingProgress(progress) == ObjectAssign(generatingProgress, progress)

\* mutant: the guard only asks the policy check
GenerateRefused_onlyForbidden(forbidden) == forbidden

\* mutant: a generate is refused while a publish is in flight
GenerateRefused_whilePublishing(forbidden) == isGenerating \/ forbidden \/ isPublishing

\* the guard of generateSite: forbidden is appService.getLatestWarning(FORBIDDEN.GENERATE)
GenerateRefused(forbidden) == isGenerating \/ forbidden

\* how a generateSite() call ends its synchronous part: it throws
\* 'generating!' or it is suspended at its await
GenerateOutcome(forbidden) ==
    IF GenerateRefused(forbidden) THEN "threw" ELSE "pending"

\* generateSite() up to its await
generateSite(forbidden) ==
    /\ IF GenerateOutcome(forbidden) = "threw"
       THEN UNCHANGED genVars
       ELSE /\ generateCalls < MaxInFlight
            /\ isGenerating' = TRUE
            /\ generatingProgress' = refreshGeneratingProgress(initialGeneratingProgress)
            /\ generateCalls' = generateCalls + 1
            /\ UNCHANGED <<files, lastGenerated>>
    /\ UNCHANGED <<initVars, credVars, localRepoStatus, pubVars>>

\* this.files after generator.generateSite() resolved with generated
FilesAfterGenerate(generated) == generated

\* mutant: a failed generate clears the list
FilesAfterGenerateFail_cleared == <<>>

\* this.files after generator.generateSite() rejected
FilesAfterGenerateFail == files

\* mutant: the count in the message is that of the list held before
GeneratedMessage_previous(generated) == <<NumberText(Len(files)), " files in totals">>

\* `${files.length} files in totals`
GeneratedMessage(generated) == <<NumberText(Len(generated)), " files in totals">>

\* generateSite() after generator.generateSite() resolved with generated
GenerateResolved(generated) ==
    /\ generateCalls > 0
    /\ files' = FilesAfterGenerate(generated)
    /\ lastGenerated' = generated
    /\ generatingProgress' =
         [generatingProgress EXCEPT
            !.result = "success",
            !.message = GeneratedMessage(generated)]
    /\ isGenerating' = FALSE
    /\ generateCalls' = generateCalls - 1
    /\ UNCHANGED <<initVars, credVars, localRepoStatus, pubVars>>

\* the catch clause of generateSite, entered with an Error whose text is
\* message: what it records, and the errors the call raises (none)
GenerateCatch(message) ==
    [progress |-> [generatingProgress EXCEPT !.result = "fail", !.message = message],
     raised |-> {}]

\* generateSite() after generator.generateSite() rejected with an Error
GenerateRejected(message) ==
    /\ generateCalls > 0
    /\ files' = FilesAfterGenerateFail
    /\ generatingProgress' = GenerateCatch(message).progress
    /\ isGenerating' = FALSE
    /\ generateCalls' = generateCalls - 1
    /\ UNCHANGED <<initVars, credVars, localRepoStatus, lastGenerated, pubVars>>

\* GeneratorEvents.PageGenerated, handled whether or not a generateSite()
\* call is in flight
PageGenerated(progress) ==
    /\ initPc # "start"
    /\ generatingProgress' = refreshGeneratingProgress(progress)
    /\ UNCHANGED <<initVars, credVars, localRepoStatus, files, isGenerating,
                   generateCalls, lastGenerated, pubVars>>

\* the public method refreshGeneratingProgress called by a caller of the
\* service, with an argument or with its default
refreshGeneratingProgressCalled(progress) ==
    /\ generatingProgress' = refreshGeneratingProgress(progress)
    /\ UNCHANGED <<initVars, credVars, localRepoStatus, files, isGenerating,
                   generateCalls, lastGenerated, pubVars>>

----------------------------------------------------------------------------
(* Publish workflow *)

\* mutant: the record is replaced by the fields of the argument
refreshPublishingProgress_replaces(progress) ==
    ObjectAssign(initialPublishProgress, progress)

\* refreshPublishingProgress(progress)
refreshPublishingProgress(progress) == ObjectAssign(publishingProgress, progress)

\* mutant: every status but Ready counts as a missing repository
isRepositoryMissing_notReady == localRepoStatus # Ready

\* the computed isRepositoryMissing
isRepositoryMissing == localRepoStatus = MissingRepository

\* mutant: the result of the last attempt is not looked at
needToInit_ignoresResult(needToCreateRepo) ==
    needToCreateRepo \/ localRepoStatus = StatusFail

\* const needToInit
needToInit(needToCreateRepo) ==
    \/ publishingProgress.result = Fail
    \/ needToCreateRepo
    \/ localRepoStatus = StatusFail

\* mutant: the guard reads the flag of the other workflow
PublishReentrant_checksGenerating == isGenerating

\* the first guard of publish
PublishReentrant == isPublishing

\* mutant: the guard only checks that the credentials are loaded
PublishInvalid_onlyNull == githubInfo.isNull

\* the second guard of publish
PublishInvalid == ~isGithubInfoValid

NoPush == [called |-> FALSE, files |-> <<>>, init |-> FALSE]

\* mutant: the flag is computed again when the timer has fired
PushArguments_reevaluated(attempt) ==
    [called |-> TRUE, files |-> files, init |-> needToInit(attempt.needToCreateRepo)]

\* the arguments of this.git.push(this.files, needToInit)
PushArguments(attempt) == [called |-> TRUE, files |-> files, init |-> attempt.needToInit]

\* a publish() call past line 202: where it is suspended ("creating": at
\* createRepository, "grace": at the 3s timer, "pushing": at git.push), its
\* argument, its const needToInit, the arguments of its git.push call, and
\* (history) where it was when git.terminate() was last called before its
\* git.push call
NewAttempt(needToCreateRepo) ==
    [pc |-> IF needToCreateRepo /\ isRepositoryMissing THEN "creating" ELSE "grace",
     needToCreateRepo |-> needToCreateRepo,
     needToInit |-> needToInit(needToCreateRepo),
     push |-> NoPush,
     stopped |-> "no"]

InFlight == BagCardinality(attempts)

Add(bag, attempt) == bag (+) SetToBag({attempt})
Remove(bag, attempt) == bag (-) SetToBag({attempt})

\* how a publish() call ends its synchronous part: it returns, it throws
\* 'invalid github info', or it is suspended at its first await
PublishOutcome ==
    IF PublishReentrant THEN "returned"
    ELSE IF PublishInvalid THEN "threw"
    ELSE "pending"

\* publish() up to its first await
publish(needToCreateRepo) ==
    /\ IF PublishOutcome # "pending"
       THEN UNCHANGED pubVars
       ELSE /\ InFlight < MaxInFlight
            /\ publishingProgress' =
                 IF needToInit(needToCreateRepo)
                 THEN refreshPublishingProgress(initialPublishProgress)
                 ELSE publishingProgress
            /\ isPublishing' = TRUE
            /\ attempts' = Add(attempts, NewAttempt(needToCreateRepo))
    /\ UNCHANGED <<initVars, credVars, localRepoStatus, genVars>>

\* mutant: the flag is left as it is when the call ends
PublishFinally_keepsFlag(attempt) ==
    /\ isPublishing' = isPublishing
    /\ attempts' = Remove(attempts, attempt)

\* the finally block of publish
PublishFinally(attempt) ==
    /\ isPublishing' = FALSE
    /\ attempts' = Remove(attempts, attempt)

\* github.createRepository() resolved: the 3s timer is started
CreateRepositoryResolved ==
    \E attempt \in BagToSet(attempts) :
        /\ attempt.pc = "creating"
        /\ attempts' = Add(Remove(attempts, attempt), [attempt EXCEPT !.pc = "grace"])
        /\ UNCHANGED <<initVars, credVars, localRepoStatus, genVars, isPublishing,
                       publishingProgress>>

\* mutant: the message is recorded as concatenated
PublishErrorMessage_untrimmed(type, message) ==
    message \o <<" ">> \o
    (IF PUBLISH_RESULT_MESSAGE(type) = "" THEN <<>> ELSE <<PUBLISH_RESULT_MESSAGE(type)>>)

\* the message publish records for a PublishError
PublishErrorMessage(type, message) ==
    trim(message \o <<" ">> \o
         (IF PUBLISH_RESULT_MESSAGE(type) = "" THEN <<>> ELSE <<PUBLISH_RESULT_MESSAGE(type)>>))

\* errors a collaborator rejects with: a PublishError carries a type, and
\* message is error.message || ''
PublishError(type, message) == [isPublishError |-> TRUE, type |-> type, message |-> message]
OtherError == [isPublishError |-> FALSE, type |-> Nil, message |-> <<"error">>]

\* mutant: every error is recorded as a failed publish, none is thrown again
PublishCatch_recordsAll(error) ==
    [progress |->
        [publishingProgress EXCEPT
           !.result = IF error.isPublishError THEN error.type ELSE Fail,
           !.message = PublishErrorMessage(Fail, error.message)],
     raised |-> {}]

\* the catch clause of publish, entered with error: what it leaves in
\* publishingProgress, and the errors the call raises (none or error)
PublishCatch(error) ==
    IF error.isPublishError
    THEN [progress |->
             [publishingProgress EXCEPT
                !.result = error.type,
                !.message = PublishErrorMessage(error.type, error.message)],
          raised |-> {}]
    ELSE [progress |-> publishingProgress, raised |-> {error}]

\* github.createRepository() rejected with an error that is no PublishError
CreateRepositoryRejected ==
    \E attempt \in BagToSet(attempts) :
        /\ attempt.pc = "creating"
        /\ publishingProgress' = PublishCatch(OtherError).progress
        /\ PublishFinally(attempt)
        /\ UNCHANGED <<initVars, credVars, localRepoStatus, genVars>>

\* github.createRepository() rejected with a PublishError
CreateRepositoryRejectedPublishError(type, message) ==
    \E attempt \in BagToSet(attempts) :
        /\ attempt.pc = "creating"
        /\ publishingProgress' = PublishCatch(PublishError(type, message)).progress
        /\ PublishFinally(attempt)
        /\ UNCHANGED <<initVars, credVars, localRepoStatus, genVars>>

\* the 3s timer fired: git.push is called
TimerFired ==
    \E attempt \in BagToSet(attempts) :
        /\ attempt.pc = "grace"
        /\ attempts' =
             Add(Remove(attempts, attempt),
                 [attempt EXCEPT !.pc = "pushing", !.push = PushArguments(attempt)])
        /\ UNCHANGED <<initVars, credVars, localRepoStatus, genVars, isPublishing,
                       publishingProgress>>

\* git.push resolved
PushResolved ==
    \E attempt \in BagToSet(attempts) :
        /\ attempt.pc = "pushing"
        /\ publishingProgress' = [publishingProgress EXCEPT !.result = Success]
        /\ PublishFinally(attempt)
        /\ UNCHANGED <<initVars, credVars, localRepoStatus, genVars>>

\* git.push rejected with a PublishError: message is error.message || ''
PushRejectedPublishError(type, message) ==
    \E attempt \in BagToSet(attempts) :
        /\ attempt.pc = "pushing"
        /\ publishingProgress' = PublishCatch(PublishError(type, message)).progress
        /\ PublishFinally(attempt)
        /\ UNCHANGED <<initVars, credVars, localRepoStatus, genVars>>

\* git.push rejected with an error that is no PublishError
PushRejectedOther ==
    \E attempt \in BagToSet(attempts) :
        /\ attempt.pc = "pushing"
        /\ publishingProgress' = PublishCatch(OtherError).progress
        /\ PublishFinally(attempt)
        /\ UNCHANGED <<initVars, credVars, localRepoStatus, genVars>>

\* git.terminate() is called while attempt is in flight: the attempt records
\* where it was, unless its git.push call was already made
Terminate(attempt) ==
    IF attempt.pc = "pushing" THEN attempt ELSE [attempt EXCEPT !.stopped = attempt.pc]

stopPublishing ==
    /\ isPublishing' = FALSE
    /\ attempts' = BagOfAll(Terminate, attempts)
    /\ UNCHANGED <<initVars, credVars, localRepoStatus, genVars, publishingProgress>>

----------------------------------------------------------------------------
(* Events of the collaborators, handled once init() has subscribed *)

\* GitEvents.Progress
GitProgress(progress) ==
    /\ initPc # "start"
    /\ publishingProgress' = refreshPublishingProgress(progress)
    /\ UNCHANGED <<initVars, credVars, localRepoStatus, genVars, isPublishing, attempts>>

\* GitEvents.Message
GitMessage(message) ==
    /\ initPc # "start"
    /\ publishingProgress' = refreshPublishingProgress([k \in {"message"} |-> message])
    /\ UNCHANGED <<initVars, credVars, localRepoStatus, genVars, isPublishing, attempts>>

\* GitEvents.LocalRepoStatusChanged
handleLocalRepoStatusChanged(status) ==
    /\ initPc # "start"
    /\ localRepoStatus' = status
    /\ publishingProgress' =
         IF status = Initializing
         THEN refreshPublishingProgress(
                [phase |-> "Local repository initializing...", message |-> <<>>])
         ELSE publishingProgress
    /\ UNCHANGED <<initVars, credVars, genVars, isPublishing, attempts>>

\* GithubClientEvents.InfoChanged: refreshPublishingProgress() with its default
GithubInfoChanged ==
    /\ initPc # "start"
    /\ publishingProgress' = refreshPublishingProgress(initialPublishProgress)
    /\ UNCHANGED <<initVars, credVars, localRepoStatus, genVars, isPublishing, attempts>>

\* the public method refreshPublishingProgress called by a caller of the
\* service, with an argument or with its default
refreshPublishingProgressCalled(progress) ==
    /\ publishingProgress' = refreshPublishingProgress(progress)
    /\ UNCHANGED <<initVars, credVars, localRepoStatus, genVars, isPublishing, attempts>>

----------------------------------------------------------------------------
(* Specifications *)

Init ==
    /\ initPc = "start"
    /\ outputDir = ""
    /\ initToken = ""
    /\ githubInfo = NullInfo
    /\ savedInfo = NotSaved
    /\ githubClient = NoClient
    /\ repositoryName = ""
    /\ localRepoStatus = Initializing
    /\ files = <<>>
    /\ isGenerating = FALSE
    /\ generatingProgress = initialGeneratingProgress
    /\ generateCalls = 0
    /\ lastGenerated = <<>>
    /\ isPublishing = FALSE
    /\ publishingProgress = initialPublishProgress
    /\ attempts = EmptyBag

\* objects over keys, each key absent or with a value of values
Partials(keys, values) ==
    UNION {[present -> values] : present \in SUBSET keys}

\* the file lists a generator returns
FileNames == <<"a", "b", "c", "d", "e", "f">>
FileLists == {SubSeq(FileNames, 1, n) : n \in 0..MaxFiles}

\* the inputs of the publish workflow
PublishInputs ==
    [tokens |-> {"t"},
     persisted |-> {[userName |-> "u", email |-> "e"]},
     saveArgs |-> {[k \in {"userName"} |-> ""], [userName |-> "u", token |-> "x"]},
     fileLists |-> FileLists,
     generateErrors |-> {<<"e">>},
     pageProgress |-> {[k \in {"message"} |-> <<"page">>]},
     publishProgress |-> {[k \in {"phase"} |-> "Pushing"]},
     messages |-> {<<"m">>},
     errorMessages |-> {<<>>}]

Step(in) ==
    \/ InitSubscribe
    \/ \E token \in in.tokens : InitToken(token)
    \/ \E persisted \in in.persisted : InitLoad(persisted)
    \/ \E arg \in in.saveArgs : saveGithubInfo(arg)
    \/ \E forbidden \in BOOLEAN : generateSite(forbidden)
    \/ \E generated \in in.fileLists : GenerateResolved(generated)
    \/ \E message \in in.generateErrors : GenerateRejected(message)
    \/ \E progress \in in.pageProgress : PageGenerated(progress)
    \/ \E needToCreateRepo \in BOOLEAN : publish(needToCreateRepo)
    \/ CreateRepositoryResolved
    \/ CreateRepositoryRejected
    \/ \E type \in PublishResults, message \in in.errorMessages :
          CreateRepositoryRejectedPublishError(type, message)
    \/ TimerFired
    \/ PushResolved
    \/ \E type \in PublishResults, message \in in.errorMessages :
          PushRejectedPublishError(type, message)
    \/ PushRejectedOther
    \/ stopPublishing
    \/ \E progress \in in.publishProgress : GitProgress(progress)
    \/ \E message \in in.messages : GitMessage(message)
    \/ \E status \in LocalRepoStatus : handleLocalRepoStatusChanged(status)
    \/ GithubInfoChanged
    \/ \E progress \in in.pageProgress \cup {initialGeneratingProgress} :
          refreshGeneratingProgressCalled(progress)
    \/ \E progress \in in.publishProgress \cup {initialPublishProgress} :
          refreshPublishingProgressCalled(progress)

Next == Step(PublishInputs)

\* every operation and event, over the inputs of the publish workflow
Spec == Init /\ [][Next]_vars

\* the values of a credential field
CredentialValues == {Nil, "", "a"}

\* the inputs of the credential operations: every record over the three
\* required keys, each absent, null, empty or set
CredentialInputs ==
    [tokens |-> {Nil, "", "t"},
     persisted |-> Partials(requiredKeys, CredentialValues),
     saveArgs |-> Partials(requiredKeys, CredentialValues)]

NextCredentials ==
    \/ InitSubscribe
    \/ \E token \in CredentialInputs.tokens : InitToken(token)
    \/ \E persisted \in CredentialInputs.persisted : InitLoad(persisted)
    \/ \E arg \in CredentialInputs.saveArgs : saveGithubInfo(arg)
    \/ \E forbidden \in BOOLEAN : generateSite(forbidden)
    \/ \E generated \in {<<"a">>} : GenerateResolved(generated)
    \/ \E needToCreateRepo \in BOOLEAN : publish(needToCreateRepo)
    \/ TimerFired
    \/ PushResolved
    \/ stopPublishing

\* init() and the four operations of the service, over every credential
\* record; the events of the collaborators, which leave the credentials
\* unchanged, are left to Spec
SpecCredentials == Init /\ [][NextCredentials]_vars

\* the messages of a PublishError: every text of at most MaxMessageLen
\* chunks, with whitespace at any place
MessageChunks == {" ", "m"}
ErrorMessages == UNION {[1..n -> MessageChunks] : n \in 0..MaxMessageLen}

NextMessages ==
    \/ InitSubscribe
    \/ \E token \in PublishInputs.tokens : InitToken(token)
    \/ \E persisted \in PublishInputs.persisted : InitLoad(persisted)
    \/ \E needToCreateRepo \in BOOLEAN : publish(needToCreateRepo)
    \/ TimerFired
    \/ PushResolved
    \/ \E type \in PublishResults, message \in ErrorMessages :
          PushRejectedPublishError(type, message)
    \/ PushRejectedOther
    \/ stopPublishing

\* the publish workflow from valid credentials, a push rejecting with every
\* message of ErrorMessages
SpecMessages == Init /\ [][NextMessages]_vars

\* the attempt that is followed to its exit: the one publish(true) call in
\* flight
FollowedInFlight == \E attempt \in BagToSet(attempts) : attempt.needToCreateRepo

\* the followed attempt takes a step of its own
FollowedMoves ==
    \E attempt \in BagToSet(attempts) :
        /\ attempt.needToCreateRepo
        /\ CopiesIn(attempt, attempts') < CopiesIn(attempt, attempts)

\* github.createRepository() settles, git.push settles
CreateRepositorySettled ==
    \/ CreateRepositoryResolved
    \/ CreateRepositoryRejected
    \/ \E type \in PublishResults, message \in PublishInputs.errorMessages :
          CreateRepositoryRejectedPublishError(type, message)
PushSettled ==
    \/ PushResolved
    \/ \E type \in PublishResults, message \in PublishInputs.errorMessages :
          PushRejectedPublishError(type, message)
    \/ PushRejectedOther

\* the callers make one publish(true) call at a time, so that the followed
\* attempt is told from the publish(false) calls around it
NextLive ==
    \/ InitSubscribe
    \/ \E token \in PublishInputs.tokens : InitToken(token)
    \/ \E persisted \in PublishInputs.persisted : InitLoad(persisted)
    \/ \E needToCreateRepo \in BOOLEAN :
          /\ needToCreateRepo => ~FollowedInFlight
          /\ publish(needToCreateRepo)
    \/ CreateRepositorySettled
    \/ TimerFired
    \/ PushSettled
    \/ stopPublishing
    \/ \E status \in LocalRepoStatus : handleLocalRepoStatusChanged(status)

\* the publish workflow with its scheduling: the timer of an attempt fires
\* 3s after it is set, and the collaborators are taken to settle every call
\* (publish sets no timeout on them)
SpecLive ==
    /\ Init
    /\ [][NextLive]_vars
    /\ WF_vars(CreateRepositorySettled /\ FollowedMoves)
    /\ WF_vars(TimerFired /\ FollowedMoves)
    /\ WF_vars(PushSettled /\ FollowedMoves)

----------------------------------------------------------------------------
(* Claims *)

\* C1 (as claimed): at most one publish attempt is in flight at any time,
\* an attempt being in flight from the moment it sets isPublishing = true
\* until it leaves its finally block.
C1_AtMostOneAttemptInFlight == InFlight <= 1

\* C2 (as claimed): git.push is never invoked for an attempt after
\* stopPublishing sent a terminate request for it, in its grace window
\* or earlier.
C2_NoPushAfterTerminate ==
    \A attempt \in BagToSet(attempts) :
        attempt.push.called => attempt.stopped = "no"

\* the attempts that leave their finally block in this step
Exiting == {attempt \in BagToSet(attempts) :
              CopiesIn(attempt, attempts') < CopiesIn(attempt, attempts)
              /\ InFlight' < InFlight}

\* C3 (as claimed): an attempt that stopPublishing reached in its grace
\* window ends with PublishingProgress.result = Terminated.
C3_StoppedInGraceEndsTerminated ==
    [][\A attempt \in Exiting :
          attempt.stopped = "grace" => publishingProgress'.result = Terminated]_vars

\* the attempts that pass the guards of publish in this step
Started == {attempt \in BagToSet(attempts') :
              CopiesIn(attempt, attempts') > CopiesIn(attempt, attempts)
              /\ InFlight' > InFlight}

\* the attempts whose git.push call is made in this step
Pushed == {attempt \in BagToSet(attempts') :
             CopiesIn(attempt, attempts') > CopiesIn(attempt, attempts)
             /\ attempt.push.called}

\* userName, email and token of the current CredentialInfo are each set
CredentialsSet ==
    /\ ~githubInfo.isNull
    /\ \A k \in {"userName", "email", "token"} :
          k \in DOMAIN githubInfo.obj /\ ~isUnset(githubInfo.obj[k])

\* C4: a publish call made while isPublishing is true returns without
\* raising and changes nothing: not isPublishing, PublishingProgress, files,
\* LocalRepoStatus, and it starts no createRepository, timer or push,
\* whatever its argument and the credentials.
C4_ReentrantPublishIsNoOp ==
    [][isPublishing =>
          /\ PublishOutcome = "returned"
          /\ \A needToCreateRepo \in BOOLEAN :
                publish(needToCreateRepo) => UNCHANGED vars]_vars

\* C4 happens: a publish is in flight, with credentials that are invalid by now
C4_Witness == isPublishing /\ InFlight = 1 /\ ~CredentialsSet

\* C5: a publish call made while isPublishing is false and the credentials
\* are invalid or not loaded raises, and changes nothing: isPublishing stays
\* false, PublishingProgress is unchanged, no createRepository or push starts.
C5_InvalidCredentialsPublishThrows ==
    [][(~isPublishing /\ ~CredentialsSet) =>
          /\ PublishOutcome = "threw"
          /\ \A needToCreateRepo \in BOOLEAN :
                publish(needToCreateRepo) => UNCHANGED vars]_vars

\* C5 happens: credentials loaded and then made invalid, nothing publishing
C5_Witness == ~isPublishing /\ ~githubInfo.isNull /\ ~CredentialsSet /\ savedInfo.saved

\* C6: a git.push call is given the list the last successful generateSite
\* returned (the empty list before any), and a failed or refused generateSite
\* leaves files unchanged.
C6_PushSendsLastGeneratedFiles ==
    [][/\ \A attempt \in Pushed : attempt.push.files = lastGenerated
       /\ (generateCalls' < generateCalls /\ generatingProgress'.result = "fail")
             => files' = files
       /\ \A forbidden \in BOOLEAN :
             (GenerateOutcome(forbidden) = "threw" /\ generateSite(forbidden))
                => files' = files]_vars

\* C6 happens: a push was given a generated list, and a later generate failed
C6_Witness ==
    /\ \E attempt \in BagToSet(attempts) :
          attempt.push.called /\ attempt.push.files # <<>>
    /\ generatingProgress.result = "fail"

\* C7: a publish call that passes both guards while PublishingProgress.result
\* is Fail resets phase, message and result to their initial values in the
\* step that sets isPublishing, before its createRepository, timer and push.
C7_PublishAfterFailResetsProgress ==
    [][(Started # {} /\ publishingProgress.result = Fail) =>
          /\ publishingProgress' = initialPublishProgress
          /\ isPublishing'
          /\ \A attempt \in Started :
                attempt.pc \in {"creating", "grace"} /\ ~attempt.push.called]_vars

\* C7 happens: the last result is Fail, with a phase and message to clear,
\* and a publish call would pass both guards
C7_Witness ==
    /\ publishingProgress.result = Fail
    /\ publishingProgress.phase # ""
    /\ publishingProgress.message # <<>>
    /\ PublishOutcome = "pending"
    /\ InFlight < MaxInFlight

\* C8: the flag given to git.push is needsFullReinit = (result = Fail) or
\* (creation requested) or (LocalRepoStatus = Fail) as it was when the call
\* passed its guards; after a status change to Fail, publish(false) resets
\* PublishingProgress and pushes with the flag true.
C8_ForceFullInitIsNeedsFullReinit ==
    [][/\ \A attempt \in Started :
             /\ attempt.needToInit =
                  (\/ publishingProgress.result = Fail
                   \/ attempt.needToCreateRepo
                   \/ localRepoStatus = StatusFail)
             /\ (~attempt.needToCreateRepo /\ localRepoStatus = StatusFail)
                   => publishingProgress' = initialPublishProgress
       /\ \A attempt \in Pushed :
             /\ attempt.push.init = attempt.needToInit
             /\ \E before \in BagToSet(attempts) :
                   /\ before.pc = "grace"
                   /\ before.needToInit = attempt.needToInit
                   /\ before.needToCreateRepo = attempt.needToCreateRepo]_vars

\* C8 happens: a publish(false) call pushed with the flag true, and neither
\* the status nor the last result is Fail any more
C8_Witness ==
    /\ localRepoStatus = Ready
    /\ publishingProgress.result = Nil
    /\ \E attempt \in BagToSet(attempts) :
          attempt.push.called /\ attempt.push.init /\ ~attempt.needToCreateRepo

\* C9: saveGithubInfo never changes the token of the current CredentialInfo
\* and never persists a token; once loaded, the token never changes.
C9_TokenNeverChanges ==
    [][/\ ~githubInfo.isNull =>
             /\ ~githubInfo'.isNull
             /\ "token" \in DOMAIN githubInfo'.obj
             /\ githubInfo'.obj["token"] = githubInfo.obj["token"]
       /\ savedInfo'.saved => "token" \notin DOMAIN savedInfo'.obj]_vars

\* C9 happens: a save went through (the same state follows the arguments
\* with a token and those without), and the token is still the loaded one
C9_Witness ==
    /\ savedInfo.saved
    /\ savedInfo.obj["userName"] = "a"
    /\ githubInfo.obj["token"] = "t"

\* C10: isGithubInfoValid is true iff userName, email and token of the
\* current CredentialInfo are each set (present, not null, not ""); it is
\* false while nothing is loaded, and follows every saveGithubInfo.
C10_ValidIffAllSet ==
    /\ isGithubInfoValid = CredentialsSet
    /\ githubInfo.isNull => ~isGithubInfoValid
    /\ PublishInvalid = ~CredentialsSet

\* C10 happens: valid credentials were made invalid by a saveGithubInfo
C10_Witness ==
    /\ savedInfo.saved
    /\ githubClient.inited
    /\ ~isGithubInfoValid
    /\ githubInfo.obj["token"] = "t"

\* C11: a generateSite call that passed its guard never raises: when the
\* generator resolves with n files, files becomes that list and
\* GeneratingProgress becomes {result: success, message: "n files in
\* totals"}; when it rejects, GeneratingProgress becomes {result: fail,
\* message: the text of the failure} and files is unchanged.
C11_GenerateRecordsItsOutcome ==
    [][/\ \A generated \in PublishInputs.fileLists :
             GenerateResolved(generated) =>
                /\ files' = generated
                /\ generatingProgress' =
                     [result |-> "success",
                      message |-> <<NumberText(Len(generated)), " files in totals">>]
       /\ \A message \in PublishInputs.generateErrors :
             GenerateRejected(message) =>
                /\ files' = files
                /\ generatingProgress' = [result |-> "fail", message |-> message]
                /\ GenerateCatch(message).raised = {}]_vars

\* C11 happens: a generate that replaced a list by a list of another length
\* has resolved
C11_Witness ==
    /\ generateCalls = 0
    /\ generatingProgress = [result |-> "success", message |-> <<"0", " files in totals">>]
    /\ files = <<>>
    /\ \E attempt \in BagToSet(attempts) : attempt.push.called /\ attempt.push.files # <<>>

\* the text without its leading and trailing whitespace
Trimmed(str) ==
    LET kept == {i \in 1..Len(str) : str[i] # " "}
    IN  IF kept = {} THEN <<>>
        ELSE SubSeq(str, CHOOSE i \in kept : \A j \in kept : i <= j,
                         CHOOSE i \in kept : \A j \in kept : i >= j)

\* the fixed explanation of a classified outcome
FixedExplanation(type) ==
    CASE type = Terminated -> <<"Publishing terminated.">>
      [] type = Fail ->
           <<"This is an unexpected error, you can retry, and report it as a Github issue">>
      [] type = Success -> <<>>

\* C12: when git.push rejects with a PublishError of type t and message m,
\* the attempt ends without raising, PublishingProgress.result = t and
\* PublishingProgress.message = trim(m + " " + the fixed explanation of t).
C12_PublishErrorIsRecorded ==
    [][\A type \in PublishResults, message \in ErrorMessages :
          PushRejectedPublishError(type, message) =>
             /\ publishingProgress'.result = type
             /\ publishingProgress'.message =
                  Trimmed(message \o <<" ">> \o FixedExplanation(type))
             /\ publishingProgress'.phase = publishingProgress.phase
             /\ PublishCatch(PublishError(type, message)).raised = {}
             /\ InFlight' = InFlight - 1]_vars

\* C12 happens: a push rejected with type Success and a message, so that
\* the whitespace that ends the concatenation was trimmed
C12_Witness ==
    /\ publishingProgress.result = Success
    /\ publishingProgress.message = <<"m">>
    /\ InFlight = 0

\* C13: an attempt leaves with isPublishing = false on every exit path (push
\* resolved, PublishError, createRepository rejected, other error thrown
\* again), and when the collaborators settle and the timer fires, an
\* attempt that started reaches its exit.
C13_AttemptExitsWithFlagCleared ==
    /\ [][Exiting # {} => ~isPublishing']_vars
    /\ FollowedInFlight ~> ~FollowedInFlight

\* C13 happens: an attempt has left through the catch clause with a
\* PublishError of type Fail, and no call is in flight
C13_Witness ==
    /\ ~isPublishing
    /\ InFlight = 0
    /\ publishingProgress.result = Fail

\* C14: when createRepository or git.push rejects with an error that is no
\* PublishError, publish raises that same error and leaves
\* PublishingProgress.result and PublishingProgress.message as they were.
C14_OtherErrorIsThrownAgain ==
    [][(CreateRepositoryRejected \/ PushRejectedOther) =>
          /\ PublishCatch(OtherError).raised = {OtherError}
          /\ publishingProgress'.result = publishingProgress.result
          /\ publishingProgress'.message = publishingProgress.message
          /\ Exiting # {}]_vars

\* C14 happens: a call is suspended at git.push and another at
\* createRepository, while PublishingProgress holds the result and message
\* of an earlier attempt, which a rejection must leave
C14_Witness ==
    /\ \E attempt \in BagToSet(attempts) : attempt.pc = "pushing"
    /\ \E attempt \in BagToSet(attempts) : attempt.pc = "creating"
    /\ publishingProgress.result = Terminated
    /\ publishingProgress.message # <<>>

\* C15: at most one generate is in flight and isGenerating is true exactly
\* while one is; a generateSite call made while isGenerating is true or
\* while the policy check forbids it raises, calls no generator and leaves
\* isGenerating, GeneratingProgress and files as they were; a call that
\* passes the guard sets isGenerating and resets GeneratingProgress to its
\* initial value; isGenerating is false once the generator call settled.
C15_OneGenerateInFlight ==
    /\ [](generateCalls <= 1 /\ (isGenerating <=> generateCalls = 1))
    /\ [][/\ \A forbidden \in BOOLEAN :
                generateSite(forbidden) =>
                   IF isGenerating \/ forbidden
                   THEN /\ GenerateOutcome(forbidden) = "threw"
                        /\ UNCHANGED <<generateCalls, isGenerating, generatingProgress,
                                       files>>
                   ELSE /\ GenerateOutcome(forbidden) = "pending"
                        /\ generateCalls' = generateCalls + 1
                        /\ isGenerating'
                        /\ generatingProgress' = [result |-> Nil, message |-> <<>>]
          /\ generateCalls' < generateCalls => ~isGenerating']_vars

\* C15 happens: a generate is in flight after an earlier one succeeded (its
\* list is held, its result was reset), and a page was reported
C15_Witness ==
    /\ isGenerating
    /\ files # <<>>
    /\ generatingProgress = [result |-> Nil, message |-> <<"page">>]

\* a step that sets PublishingProgress back to its initial value
ProgressReset ==
    publishingProgress # initialPublishProgress
    /\ publishingProgress' = initialPublishProgress

\* PublishingProgress after an event that carries the fields of payload
Overlaid(payload) ==
    [k \in DOMAIN publishingProgress |->
        IF k \in DOMAIN payload THEN payload[k] ELSE publishingProgress[k]]

\* the events of the local repository, and a call of the refresh with an
\* argument, overlay only the fields they carry
LocalRepoEventsOverlay ==
    /\ \A progress \in PublishInputs.publishProgress :
          (GitProgress(progress) \/ refreshPublishingProgressCalled(progress))
             => publishingProgress' = Overlaid(progress)
    /\ \A message \in PublishInputs.messages :
          GitMessage(message) =>
             publishingProgress' = Overlaid([k \in {"message"} |-> message])
    /\ \A status \in LocalRepoStatus :
          handleLocalRepoStatusChanged(status) =>
             publishingProgress' =
                IF status = Initializing
                THEN Overlaid([phase |-> "Local repository initializing...",
                               message |-> <<>>])
                ELSE publishingProgress

\* C16 (as claimed): PublishingProgress is set back to its initial value
\* only by a publish call that passes its guards with needsFullReinit true;
\* every event overlays only the fields it carries, so that an InfoChanged
\* event, which carries none, leaves phase, message and result unchanged.
C16_ResetOnlyByPublish ==
    [][/\ ProgressReset => \E attempt \in Started : attempt.needToInit
       /\ LocalRepoEventsOverlay
       /\ GithubInfoChanged => publishingProgress' = publishingProgress]_vars

\* C16 (amended): PublishingProgress is set back to its initial value only
\* by a publish call that passes its guards with needsFullReinit true, by
\* an InfoChanged event, whose handler resets phase, message and result,
\* or by a call of the refresh without argument; the progress, message and
\* status events of the local repository overlay only the fields they
\* carry.
C16_ResetByPublishOrInfoChanged ==
    [][/\ ProgressReset =>
             \/ \E attempt \in Started : attempt.needToInit
             \/ GithubInfoChanged
             \/ refreshPublishingProgressCalled(initialPublishProgress)
       /\ LocalRepoEventsOverlay
       /\ GithubInfoChanged => publishingProgress' = initialPublishProgress]_vars

\* C16 happens: a publish that made no reset is in flight, with the result,
\* phase and message of an earlier attempt, which an event of the local
\* repository overlays and an InfoChanged event resets
C16_Witness ==
    /\ initPc = "done"
    /\ publishingProgress.result = Success
    /\ publishingProgress.phase = "Pushing"
    /\ publishingProgress.message = <<"m">>
    /\ \E attempt \in BagToSet(attempts) : ~attempt.needToInit

\* C17: an attempt calls createRepository iff creation was requested and
\* LocalRepoStatus is MissingRepository when the call passes its guards;
\* the timer is set only when createRepository has resolved, git.push is
\* called only when the timer has fired, and an attempt whose
\* createRepository rejects sets no timer and calls no push.
C17_CreateThenGraceThenPush ==
    /\ [](\A attempt \in BagToSet(attempts) :
             /\ attempt.pc = "creating" => attempt.needToCreateRepo
             /\ attempt.push.called <=> attempt.pc = "pushing")
    /\ [][/\ \A attempt \in Started :
                 /\ attempt.pc =
                      IF attempt.needToCreateRepo /\ localRepoStatus = MissingRepository
                      THEN "creating" ELSE "grace"
                 /\ ~attempt.push.called
          /\ \A attempt \in Pushed :
                 \E before \in BagToSet(attempts) :
                    /\ before.pc = "grace"
                    /\ CopiesIn(before, attempts') < CopiesIn(before, attempts)
          /\ \A attempt \in BagToSet(attempts') :
                 (attempt.pc = "grace"
                  /\ CopiesIn(attempt, attempts') > CopiesIn(attempt, attempts)
                  /\ InFlight' = InFlight)
                    => \E before \in BagToSet(attempts) :
                          /\ before.pc \in {"creating", "grace"}
                          /\ CopiesIn(before, attempts') < CopiesIn(before, attempts)
                          /\ before.pc = "creating" => CreateRepositoryResolved
          /\ \A attempt \in Exiting :
                 /\ attempt.pc \in {"creating", "pushing"}
                 /\ attempt.pc = "creating" => ~attempt.push.called]_vars

\* C17 happens: an attempt that was stopped while it waited for
\* createRepository has set its timer and called git.push since
C17_Witness ==
    \E attempt \in BagToSet(attempts) :
        attempt.pc = "pushing" /\ attempt.stopped = "creating"

\* C18: generateSite and publish are independent: a step of generateSite
\* leaves isPublishing, PublishingProgress and LocalRepoStatus unchanged
\* and its guard does not depend on them; a step of publish or
\* stopPublishing leaves isGenerating, GeneratingProgress and files
\* unchanged; a publish may start while a generate is in flight, and a
\* generate while a publish is.
C18_GenerateAndPublishIndependent ==
    /\ [](\A forbidden \in BOOLEAN :
             GenerateOutcome(forbidden) =
                IF isGenerating \/ forbidden THEN "threw" ELSE "pending")
    /\ [](PublishOutcome =
             IF isPublishing THEN "returned"
             ELSE IF ~CredentialsSet THEN "threw" ELSE "pending")
    /\ [][/\ (generateCalls' # generateCalls \/ isGenerating' # isGenerating
                \/ files' # files)
                 => UNCHANGED <<isPublishing, publishingProgress, localRepoStatus,
                                attempts>>
          /\ (attempts' # attempts \/ isPublishing' # isPublishing)
                 => UNCHANGED <<isGenerating, generatingProgress, files,
                                generateCalls>>]_vars

\* C18 happens: a generate and a publish are in flight together
C18_Witness ==
    /\ isGenerating /\ generateCalls = 1
    /\ isPublishing /\ InFlight = 1

\* userName, email and token of a credential record are each set
AllSet(obj) ==
    \A k \in {"userName", "email", "token"} : k \in DOMAIN obj /\ ~isUnset(obj[k])

\* C19: github.init is called only with credentials that are valid: at the
\* end of init() and after every saveGithubInfo, invalid merged credentials
\* leave the client and repositoryName as they were, and valid ones are
\* handed to github.init and repositoryName is read from the client again;
\* while no credential state exists, saveGithubInfo changes nothing,
\* persists nothing and does not raise.
C19_ClientInitOnlyWithValid ==
    /\ [](githubClient.inited => AllSet(githubClient.info))
    /\ [][/\ (githubInfo' # githubInfo \/ savedInfo' # savedInfo
                \/ githubClient' # githubClient \/ repositoryName' # repositoryName)
                 => /\ ~githubInfo'.isNull
                    /\ IF AllSet(githubInfo'.obj)
                       THEN /\ githubClient' = [inited |-> TRUE, info |-> githubInfo'.obj]
                            /\ repositoryName' = getRepositoryName(githubClient'.info)
                       ELSE UNCHANGED <<githubClient, repositoryName>>
          /\ githubInfo.isNull =>
                \A arg \in CredentialInputs.saveArgs :
                   saveGithubInfo(arg) => UNCHANGED vars]_vars

\* C19 happens: valid credentials were handed to the client, a save made
\* them invalid, and the client and repositoryName are those of before
C19_Witness ==
    /\ githubClient.inited
    /\ savedInfo.saved
    /\ ~AllSet(githubInfo.obj)
    /\ githubClient.info # githubInfo.obj
    /\ repositoryName = "a"

\* C20 (as claimed): the flag isPublishing is cleared only by stopPublishing
\* or by the exit of the attempt that set it, so that the exit of an
\* attempt never clears the flag while another attempt is in its grace
\* window or push.
C20_ExitClearsOnlyItsOwnFlag ==
    [][(isPublishing /\ ~isPublishing') =>
          \/ stopPublishing
          \/ /\ Exiting # {}
             /\ \A attempt \in BagToSet(attempts') :
                   attempt.pc \notin {"grace", "pushing"}]_vars

====
